---- MODULE Spec2Model ----
(***************************************************************************)
(* PyZwaver: the secure transport (pyzwaver/zsecurity.py) and the          *)
(* table-driven command codec (pyzwaver/command.py).                       *)
(*                                                                         *)
(* Three specifications share this module:                                 *)
(*   Spec       the per-node SecureQueue session                           *)
(*   CryptSpec  Crypter.Wrap / Crypter.Unwrap on enumerated inputs         *)
(*   CodecSpec  AssembleCommand / ParseCommand on enumerated inputs        *)
(* Python lists are sequences (index i in Python is i + 1 here); a Python  *)
(* exception is an outcome record [kind |-> "raise", exc |-> <name>].      *)
(***************************************************************************)
EXTENDS Integers, Sequences, FiniteSets, TLC

VARIABLES
    \* ---- SecureQueue (zsecurity.py:119-167)
    queue,            \* self._queue
    crypter,          \* the network key the session's Crypter was built from
    nonce_outbound,   \* self._nonce_outbound
    now,              \* the wall clock (time.time(), whole seconds)
    last,             \* the last call on the session and its outcome
    enqueued,         \* history: every command EnqueueMessage accepted, in order
    released,         \* history: every command ProcessReceivedNonce popped, in order
    \* ---- Crypter harness
    cr_pc, cr_in, cr_wrapped, cr_tamper, cr_result,
    \* ---- codec harness
    co_pc, co_in, co_raw, co_out

sessionVars == <<queue, crypter, nonce_outbound, now, last, enqueued, released>>
cryptVars == <<cr_pc, cr_in, cr_wrapped, cr_tamper, cr_result>>
codecVars == <<co_pc, co_in, co_raw, co_out>>
vars == <<sessionVars, cryptVars, codecVars>>

(***************************************************************************)
(* Bounds of the model.                                                    *)
(***************************************************************************)
MaxQueue == 3
MaxTime == 7
MaxPayloadLen == 17
MaxArgLen == 2
MaxMantissaLen == 3
MaxFieldLen == 17

(***************************************************************************)
(* Bytes and Python list helpers.                                          *)
(***************************************************************************)
RECURSIVE Xor(_, _)
\* Python's int ^ int on non-negative integers.
Xor(a, b) ==
    IF a = 0 THEN b
    ELSE IF b = 0 THEN a
    ELSE ((a + b) % 2) + 2 * Xor(a \div 2, b \div 2)

RECURSIVE And(_, _)
\* Python's int & int on non-negative integers.
And(a, b) ==
    IF a = 0 \/ b = 0 THEN 0
    ELSE ((a % 2) * (b % 2)) + 2 * And(a \div 2, b \div 2)

RECURSIVE Pow(_, _)
Pow(b, e) == IF e = 0 THEN 1 ELSE b * Pow(b, e - 1)

Min(a, b) == IF a < b THEN a ELSE b
Max(a, b) == IF a > b THEN a ELSE b

\* Python's m[lo:hi] for 0 <= lo, 0 <= hi (0-based, hi exclusive, clamped).
Slice(m, lo, hi) ==
    LET h == Min(hi, Len(m))
    IN  IF lo >= h THEN <<>> ELSE [i \in 1..(h - lo) |-> m[lo + i]]

\* Python's [v] * n.
Repeat(v, n) == [i \in 1..n |-> v]

_DEFAULT_NETWORK_KEY == [i \in 1..16 |-> i - 1]
_TEMP_NETWORK_KEY == Repeat(0, 16)
_CRYPT_SECRET == Repeat(170, 16)
_AUTH_SECRET == Repeat(85, 16)
_NONCE_TIMEOUT_SEC == 5

(***************************************************************************)
(* The block cipher.  AES itself is the external Crypto.Cipher primitive;  *)
(* the code relies only on it being a deterministic function of (key,      *)
(* 16-byte block) to a 16-byte block.  It is modelled by a keyed byte mix  *)
(* with diffusion between neighbouring bytes.                              *)
(***************************************************************************)
AESEncrypt(key, block) ==
    [i \in 1..16 |->
        (3 * block[i] + 5 * block[(i % 16) + 1] + key[i]
           + 7 * key[((i + 4) % 16) + 1] + 11 * i + 1) % 256]

RECURSIVE KeyStream(_, _, _)
\* The value of Crypt's iv after it was re-encrypted at byte 16*k.
KeyStream(key, iv, k) ==
    IF k = 0 THEN AESEncrypt(key, iv)
    ELSE AESEncrypt(key, KeyStream(key, iv, k - 1))

Crypt(key, data, iv_orig) ==
    [i \in 1..Len(data) |->
        Xor(data[i], KeyStream(key, iv_orig, (i - 1) \div 16)[((i - 1) % 16) + 1])]

RECURSIVE MacChain(_, _, _, _, _)
\* ComputeMAC's loop: x runs over range(0, n, 16).
MacChain(key, auth, buf, x, n) ==
    IF x >= n THEN auth
    ELSE MacChain(key,
                  AESEncrypt(key, [i \in 1..16 |-> Xor(auth[i], buf[x + i])]),
                  buf, x + 16, n)

\* len(data) <= 255 here: bytes(auth) accepts only 0..255.
ComputeMAC(key, data, iv, sub_command, src_node, dst_node) ==
    LET padding == Repeat(0, 16)
        header == <<sub_command, src_node, dst_node, Len(data)>>
        buf == header \o data \o padding
        auth == AESEncrypt(key, iv)
    IN  SubSeq(MacChain(key, auth, buf, 0, Len(header) + Len(data)), 1, 8)

\* Crypter.__init__: the two derived keys.
Crypter(key) ==
    [_auth_key |-> AESEncrypt(key, _AUTH_SECRET),
     _crypt_key |-> AESEncrypt(key, _CRYPT_SECRET)]

Wrap_NoSequenceByte(self, payload, nonce, random, sub_command, src_node, dst_node) ==
    LET iv == random \o nonce
        plain == payload
        enc == Crypt(self._crypt_key, plain, iv)
        mac == ComputeMAC(self._auth_key, enc, iv, sub_command, src_node, dst_node)
    IN  SubSeq(iv, 1, 8) \o enc \o <<nonce[1]>> \o mac

Wrap(self, payload, nonce, random, sub_command, src_node, dst_node) ==
    LET iv == random \o nonce
        plain == <<0>> \o payload
        enc == Crypt(self._crypt_key, plain, iv)
        mac == ComputeMAC(self._auth_key, enc, iv, sub_command, src_node, dst_node)
    IN  SubSeq(iv, 1, 8) \o enc \o <<nonce[1]>> \o mac

\* Unwrap's loop over zip(mac_actual, mac_expected): some pair among the
\* first n differs.
MacDiffers(mac_actual, mac_expected, n) ==
    \E i \in 1..Min(n, Min(Len(mac_actual), Len(mac_expected))) :
        mac_actual[i] # mac_expected[i]

Unwrap_SevenByteMac(self, wrapped, nonce, sub_command, src_node, dst_node) ==
    LET enc_size == Len(wrapped) - 8 - 8 - 1
        iv == Slice(wrapped, 0, 8) \o nonce
        enc == Slice(wrapped, 8, Max(8 + enc_size, 0))
        mac_expected == Slice(wrapped, Max(Len(wrapped) - 8, 0), Len(wrapped))
    IN  IF Len(wrapped) < 9 THEN [kind |-> "raise", exc |-> "IndexError"]
        ELSE IF wrapped[Len(wrapped) - 8] # nonce[1]
        THEN [kind |-> "None", log |-> "nonce in wrapped message is off"]
        ELSE IF MacDiffers(ComputeMAC(self._auth_key, enc, iv,
                                      sub_command, src_node, dst_node),
                           mac_expected, 7)
        THEN [kind |-> "None", log |-> "mac mismatch"]
        ELSE [kind |-> "payload",
              data |-> Slice(Crypt(self._crypt_key, enc, iv), 1, Len(enc))]

\* wrapped[-9] raises IndexError on fewer than 9 bytes; with 9..16 bytes
\* enc_size is negative and the slice wrapped[8:8+enc_size] is empty.
Unwrap(self, wrapped, nonce, sub_command, src_node, dst_node) ==
    LET enc_size == Len(wrapped) - 8 - 8 - 1
        iv == Slice(wrapped, 0, 8) \o nonce
        enc == Slice(wrapped, 8, Max(8 + enc_size, 0))
        mac_expected == Slice(wrapped, Max(Len(wrapped) - 8, 0), Len(wrapped))
    IN  IF Len(wrapped) < 9 THEN [kind |-> "raise", exc |-> "IndexError"]
        ELSE IF wrapped[Len(wrapped) - 8] # nonce[1]
        THEN [kind |-> "None", log |-> "nonce in wrapped message is off"]
        ELSE IF MacDiffers(ComputeMAC(self._auth_key, enc, iv,
                                      sub_command, src_node, dst_node),
                           mac_expected, 8)
        THEN [kind |-> "None", log |-> "mac mismatch"]
        ELSE [kind |-> "payload",
              data |-> Slice(Crypt(self._crypt_key, enc, iv), 1, Len(enc))]

(***************************************************************************)
(* SecureQueue (zsecurity.py:119-167).                                     *)
(*                                                                         *)
(* The class defines __init (line 141), not __init__, so construction runs *)
(* no setup; the session state below (queue, key, outbound nonce) is the   *)
(* state that method is written to establish, set up by the session's      *)
(* owner.  Every operation is modelled from its own code.                  *)
(***************************************************************************)
\* Command class and command ids of the z module (not among the sources).
Security == 152
Security_NetworkKeySet == 6
Security_MessageEncap == 129
Basic == 32
Basic_Set == 1

SessionNodes == [controller |-> 1, node |-> 2]

NewKeys == {_TEMP_NETWORK_KEY, Repeat(17, 16)}

\* The commands callers enqueue: raw_cmd [class, subcommand, arg].
Commands ==
    {<<Basic, Basic_Set, <<lvl>>>> : lvl \in {0, 255}}
        \cup {<<Security, Security_NetworkKeySet, k>> : k \in NewKeys}

NonceValues == {Repeat(1, 8), Repeat(2, 8)}

\* Nonce.__init (line 111-113): value and expiration instant.
Nonce(value, t) == [value |-> value, expiration |-> t + _NONCE_TIMEOUT_SEC]

\* Nonce.IsExpired (line 115-116).
IsExpired(self, t) == t > self.expiration

\* GetRandomList (line 137-139): the debugging stand-in for a random seed.
GetRandomList(n) == SubSeq(_CRYPT_SECRET, 1, n)

SessionInit ==
    /\ queue = <<>>
    /\ crypter = _DEFAULT_NETWORK_KEY
    /\ nonce_outbound = [value |-> <<>>, expiration |-> 0]
    /\ now = 0
    /\ last = [op |-> "init"]
    /\ enqueued = <<>>
    /\ released = <<>>

QueueAppend_Dedup(q, message) ==
    IF \E i \in 1..Len(q) : q[i] = message THEN q ELSE Append(q, message)

\* self._queue.append(message) (line 131).
QueueAppend(q, message) == Append(q, message)

EnqueueMessage(message) ==
    /\ Len(enqueued) < MaxQueue
    /\ queue' = QueueAppend(queue, message)
    /\ enqueued' = Append(enqueued, message)
    /\ last' = [op |-> "EnqueueMessage", cmd |-> message, pre_queue |-> queue]
    /\ UNCHANGED <<crypter, nonce_outbound, now, released, cryptVars, codecVars>>

\* SetKey (line 133-135) builds _Crypter(key); the module defines Crypter
\* only, so the call raises NameError and self._crypter is not assigned.
SetKey(key) ==
    /\ last' = [op |-> "SetKey", key |-> key, pre_crypter |-> crypter,
                outcome |-> [kind |-> "raise", exc |-> "NameError"]]
    /\ UNCHANGED <<queue, crypter, nonce_outbound, now, enqueued, released,
                   cryptVars, codecVars>>

QueueGuard_Inverted(q) == Len(q) = 0

\* The test of line 154, under which line 155 returns None.
QueueGuard(q) == Len(q) # 0

\* ProcessReceivedNonce's body from line 154 on.  Past the guard the queue
\* is empty and pop(0) raises IndexError; were an element popped, line 157
\* calls AssembleCommand(cmd) with one argument where three are declared
\* (command.py:357) and raises TypeError before any wrap.
ProcessBody(q, key) ==
    IF QueueGuard(q)
    THEN [queue |-> q, crypter |-> key, popped |-> <<>>,
          outcome |-> [kind |-> "None"]]
    ELSE IF Len(q) = 0
    THEN [queue |-> q, crypter |-> key, popped |-> <<>>,
          outcome |-> [kind |-> "raise", exc |-> "IndexError"]]
    ELSE [queue |-> Tail(q), crypter |-> key, popped |-> <<Head(q)>>,
          outcome |-> [kind |-> "raise", exc |-> "TypeError"]]

ProcessReceivedNonce(nonce) ==
    LET r == ProcessBody(queue, crypter)
    IN  /\ nonce_outbound' = nonce
        /\ queue' = r.queue
        /\ crypter' = r.crypter
        /\ released' = released \o r.popped
        /\ last' = [op |-> "ProcessReceivedNonce", nonce |-> nonce,
                    pre_queue |-> queue, pre_crypter |-> crypter,
                    pre_released |-> released, at |-> now,
                    outcome |-> r.outcome]
        /\ UNCHANGED <<now, enqueued, cryptVars, codecVars>>

Tick ==
    /\ now < MaxTime
    /\ now' = now + 1
    /\ UNCHANGED <<queue, crypter, nonce_outbound, last, enqueued, released,
                   cryptVars, codecVars>>

SessionNext ==
    \/ \E message \in Commands : EnqueueMessage(message)
    \/ \E key \in NewKeys : SetKey(key)
    \/ \E value \in NonceValues, created \in 0..now :
          ProcessReceivedNonce(Nonce(value, created))
    \/ Tick

(***************************************************************************)
(* Crypter harness: one Wrap, an optional single-byte tampering of the     *)
(* wrapped message in flight, one Unwrap.                                  *)
(***************************************************************************)
PayloadOf(len, seed) == [i \in 1..len |-> (seed + 37 * i) % 256]

PayloadLens == (0..MaxPayloadLen) \cup {33}

CryptInputs ==
    [key : {_DEFAULT_NETWORK_KEY, _TEMP_NETWORK_KEY},
     payload : {PayloadOf(n, s) : n \in PayloadLens, s \in {0, 200}},
     nonce : NonceValues,
     random : {GetRandomList(8), [i \in 1..8 |-> 31 * i]},
     hdr : {[sub |-> Security_MessageEncap, src |-> 1, dst |-> 2]}]

\* XOR masks: the replaced byte differs from the original in the lowest
\* bit, the highest bit, or every bit.
TamperMasks == {1, 128, 255}

CryptIdle ==
    /\ cr_pc = "idle"
    /\ cr_in = [key |-> <<>>]
    /\ cr_wrapped = <<>>
    /\ cr_tamper = [pos |-> 0, mask |-> 0]
    /\ cr_result = [kind |-> "none"]

CryptInit ==
    /\ cr_pc = "start"
    /\ cr_in \in CryptInputs
    /\ cr_wrapped = <<>>
    /\ cr_tamper = [pos |-> 0, mask |-> 0]
    /\ cr_result = [kind |-> "none"]

CrWrap ==
    /\ cr_pc = "start"
    /\ cr_wrapped' = Wrap(Crypter(cr_in.key), cr_in.payload, cr_in.nonce,
                          cr_in.random, cr_in.hdr.sub, cr_in.hdr.src,
                          cr_in.hdr.dst)
    /\ cr_pc' = "wrapped"
    /\ UNCHANGED <<cr_in, cr_tamper, cr_result, sessionVars, codecVars>>

\* The transport delivers the wrapped message with byte pos (1-based)
\* replaced by a different value.
CrTamper(pos, mask) ==
    /\ cr_pc = "wrapped"
    /\ cr_tamper.pos = 0
    /\ pos \in 1..Len(cr_wrapped)
    /\ cr_wrapped' = [cr_wrapped EXCEPT ![pos] = Xor(@, mask)]
    /\ cr_tamper' = [pos |-> pos, mask |-> mask]
    /\ UNCHANGED <<cr_pc, cr_in, cr_result, sessionVars, codecVars>>

CrUnwrap(nonce) ==
    /\ cr_pc = "wrapped"
    /\ cr_result' = [kind |-> "unwrap", nonce |-> nonce,
                     out |-> Unwrap(Crypter(cr_in.key), cr_wrapped, nonce,
                                    cr_in.hdr.sub, cr_in.hdr.src,
                                    cr_in.hdr.dst)]
    /\ cr_pc' = "unwrapped"
    /\ UNCHANGED <<cr_in, cr_wrapped, cr_tamper, sessionVars, codecVars>>

CryptNext ==
    \/ CrWrap
    \/ \E pos \in 1..(8 + 1 + Max(MaxPayloadLen, 33) + 1 + 8), mask \in TamperMasks :
          CrTamper(pos, mask)
    \/ \E nonce \in NonceValues : CrUnwrap(nonce)

(***************************************************************************)
(* The command codec (command.py).                                         *)
(*                                                                         *)
(* A parser returns (new index, value); here                               *)
(*   [tag |-> "ok", index, value]   a pair whose value is not None         *)
(*   [tag |-> "None", index]        a pair whose value is None             *)
(*   [tag |-> "scalar", index]      a bare integer (no pair)               *)
(*   [tag |-> "raise", exc]         an exception                           *)
(* A Python dict is a function from its keys; a float n / 10^e is the      *)
(* reduced fraction <<numerator, denominator>>.                            *)
(***************************************************************************)
RECURSIVE Or(_, _)
\* Python's int | int on non-negative integers.
Or(a, b) ==
    IF a = 0 THEN b
    ELSE IF b = 0 THEN a
    ELSE (IF a % 2 = 1 \/ b % 2 = 1 THEN 1 ELSE 0) + 2 * Or(a \div 2, b \div 2)

Shl(a, n) == a * Pow(2, n)
Shr(a, n) == a \div Pow(2, n)

RECURSIVE Gcd(_, _)
Gcd(a, b) == IF b = 0 THEN a ELSE Gcd(b, a % b)

\* Python's n / d (true division) for d > 0, as a reduced fraction.
Div(n, d) ==
    LET g == Gcd(IF n < 0 THEN -n ELSE n, d)
    IN  <<n \div g, d \div g>>

Ok(index, value) == [tag |-> "ok", index |-> index, value |-> value]
None(index) == [tag |-> "None", index |-> index]
Scalar(index) == [tag |-> "scalar", index |-> index]
Raise(exc) == [tag |-> "raise", exc |-> exc]

RECURSIVE SignedFold(_, _, _, _)
\* The loop of _GetSignedValue: value <<= 8, then += ~d or += d.
SignedFold(data, i, value, negative) ==
    IF i > Len(data) THEN value
    ELSE SignedFold(data, i + 1,
                    value * 256 + (IF negative THEN -data[i] - 1 ELSE data[i]),
                    negative)

\* _GetSignedValue(data) for non-empty data (data[0] raises IndexError on
\* an empty list; the callers below test for that first).
_GetSignedValue(data) ==
    LET negative == And(data[1], 128) # 0
        value == SignedFold(data, 1, 0, negative)
    IN  IF negative THEN -(value + 1) ELSE value

_GetTimeDelta(m, index) ==
    [index |-> index + 2, dt |-> m[index + 1] * 256 + m[index + 2]]

\* The part of _ParseMeter after the first mantissa: the optional time
\* delta and the optional second mantissa.
MeterTail(m, index0, size, out0) ==
    LET hasDt == index0 + 2 <= Len(m)
        index1 == IF hasDt THEN index0 + 2 ELSE index0
        out1 == IF hasDt THEN out0 @@ ("dt" :> _GetTimeDelta(m, index0).dt)
                ELSE out0
        has2 == index1 + size <= Len(m)
        mantissa2 == Slice(m, index1, index1 + size)
    IN  IF ~has2 THEN Ok(index1, out1)
        ELSE IF Len(mantissa2) = 0 THEN Raise("IndexError")
        ELSE Ok(index1 + size,
                out1 @@ ("mantissa2" :> mantissa2)
                     @@ ("_value2" :> Div(_GetSignedValue(mantissa2),
                                          Pow(10, out0["exp"]))))

_ParseMeter(m, index) ==
    IF index + 2 > Len(m) THEN None(index)
    ELSE
      LET c1 == m[index + 1]
          unit_extra == Shr(And(c1, 128), 7)
          type == And(c1, 31)
          rate == Shr(And(c1, 96), 5)
          c2 == m[index + 2]
          size == And(c2, 7)
          unit == Or(Shr(And(c2, 24), 3), Shl(unit_extra, 2))
          exp == Shr(And(c2, 224), 5)
          index2 == index + 2
          mantissa == Slice(m, index2, index2 + size)
      IN  IF index2 + size >= Len(m) THEN None(index2)
          ELSE IF Len(mantissa) = 0 THEN Raise("IndexError")
          ELSE MeterTail(m, index2 + size, size,
                         [type |-> type, unit |-> unit, exp |-> exp,
                          rate |-> rate, mantissa |-> mantissa,
                          _value |-> Div(_GetSignedValue(mantissa), Pow(10, exp))])

_ParseByte(m, index) ==
    IF Len(m) <= index THEN None(index) ELSE Ok(index + 1, m[index + 1])

_ParseWord(m, index) ==
    IF Len(m) <= index + 1 THEN None(index)
    ELSE Ok(index + 2, m[index + 1] * 256 + m[index + 2])

RECURSIVE Utf16Units(_, _)
\* bytes.decode("utf-16-be") on an even number of bytes, surrogates aside:
\* one code point per byte pair.
Utf16Units(b, i) ==
    IF i > Len(b) THEN <<>>
    ELSE <<b[i] * 256 + b[i + 1]>> \o Utf16Units(b, i + 2)

\* bytes(m).decode(_ENCODING_TO_DECODER[encoding]) as the code points, or
\* the exception: the list has three entries; ascii rejects bytes over 127;
\* utf-16-be rejects an odd length and unpaired surrogates.
BytesDecode(b, encoding) ==
    IF encoding > 2 THEN Raise("IndexError")
    ELSE IF encoding = 0
    THEN IF \E i \in 1..Len(b) : b[i] > 127 THEN Raise("UnicodeDecodeError")
         ELSE [tag |-> "str", text |-> b]
    ELSE IF encoding = 1 THEN [tag |-> "str", text |-> b]
    ELSE IF Len(b) % 2 = 1 THEN Raise("UnicodeDecodeError")
    ELSE IF \E u \in 1..Len(Utf16Units(b, 1)) :
               Utf16Units(b, 1)[u] \in 55296..57343
    THEN Raise("UnicodeDecodeError")
    ELSE [tag |-> "str", text |-> Utf16Units(b, 1)]

\* assert len(m) > index; the returned index is the length of the tail.
_ParseName(m, index) ==
    IF ~(Len(m) > index) THEN Raise("AssertionError")
    ELSE
      LET encoding == And(m[index + 1], 3)
          tail == Slice(m, index + 1, Len(m))
          decoded == BytesDecode(tail, encoding)
      IN  IF decoded.tag = "raise" THEN decoded
          ELSE Ok(Len(tail), [encoding |-> encoding, text |-> tail,
                              _decoded |-> decoded.text])

\* m[index] raises IndexError past the end; the slice ends at size, not
\* at index + 1 + size.
_ParseStringWithLength(m, index) ==
    IF index >= Len(m) THEN Raise("IndexError")
    ELSE LET size == m[index + 1]
         IN  Ok(1 + size + index, Slice(m, index + 1, size))

\* The returned index is 1 + size, not index + 1 + size.
_ParseStringWithLengthAndEncoding(m, index) ==
    IF index >= Len(m) THEN Raise("IndexError")
    ELSE LET encoding == Shr(m[index + 1], 5)
             size == And(m[index + 1], 31)
         IN  Ok(1 + size, [encoding |-> encoding,
                           text |-> Slice(m, index + 1, index + 1 + size)])

_ParseListRest(m, index) ==
    LET size == Len(m) - index
    IN  Ok(index + size, Slice(m, index, index + size))

_ExtractBitVector(data, offset) ==
    {j + (i - 1) * 8 + offset :
        <<i, j>> \in {p \in (1..Len(data)) \X (0..7) :
                         And(data[p[1]], Pow(2, p[2])) # 0}}

RECURSIVE GroupList(_, _, _)
\* The loop of _ParseGroups over count 7-byte records.
GroupList(m, index, count) ==
    IF count = 0 THEN <<>>
    ELSE <<<<m[index + 1],
             m[index + 3] * 256 + m[index + 4],
             m[index + 6] * 256 + m[index + 7]>>>>
           \o GroupList(m, index + 7, count - 1)

_ParseGroups(m, index) ==
    IF index >= Len(m) THEN Raise("IndexError")
    ELSE LET count == And(m[index + 1], 63)
         IN  IF Len(m) < index + 1 + count * 7 THEN None(index)
             ELSE Ok(index + 1 + count * 7, GroupList(m, index + 1, count))

_ParseBitVector(m, index) ==
    IF index >= Len(m) THEN Raise("IndexError")
    ELSE LET size == m[index + 1]
         IN  Ok(index + 1 + size,
                _ExtractBitVector(Slice(m, index + 1, index + 1 + size), 0))

_ParseBitVectorRest(m, index) ==
    Ok(Len(m), _ExtractBitVector(Slice(m, index, Len(m)), 0))

_ParseNonce(m, index) ==
    LET size == 8
    IN  IF Len(m) < index + size THEN None(index)
        ELSE Ok(index + size, Slice(m, index, index + size))

_ParseDataRest(m, index) ==
    LET size == Len(m) - index
    IN  Ok(index + size, Slice(m, index, index + size))

RECURSIVE _GetIntLittleEndian(_)
_GetIntLittleEndian(m) ==
    IF Len(m) = 0 THEN 0 ELSE m[1] + 256 * _GetIntLittleEndian(Tail(m))

RECURSIVE _GetIntBigEndian(_)
_GetIntBigEndian(m) ==
    IF Len(m) = 0 THEN 0
    ELSE _GetIntBigEndian(SubSeq(m, 1, Len(m) - 1)) * 256 + m[Len(m)]

_ParseRestLittleEndianInt(m, index) ==
    LET size == Len(m) - index
    IN  Ok(index + size,
           [size |-> size,
            value |-> _GetIntLittleEndian(Slice(m, index, index + size))])

\* The short-mantissa branch returns the bare index (line 244).
_ParseSensor(m, index) ==
    IF Len(m) < index + 2 THEN None(index)
    ELSE
      LET c == m[index + 1]
          precision == And(Shr(c, 5), 7)
          scale == And(Shr(c, 3), 3)
          size == And(c, 7)
          mantissa == Slice(m, index + 1, index + 1 + size)
      IN  IF Len(m) < index + 1 + size THEN Scalar(index)
          ELSE IF Len(mantissa) = 0 THEN Raise("IndexError")
          ELSE Ok(index + 1 + size,
                  [exp |-> precision, scale |-> scale, mantissa |-> mantissa,
                   _value |-> Div(_GetSignedValue(mantissa), Pow(10, precision))])

_ParseValue(m, index) ==
    IF index >= Len(m) THEN Raise("IndexError")
    ELSE LET size == And(m[index + 1], 7)
             start == index + 1
         IN  Ok(index + 1 + size,
                [size |-> size,
                 value |-> _GetIntBigEndian(Slice(m, start, start + size))])

\* The short-input branch returns the bare len(m) (line 260).
_ParseDate(m, index) ==
    IF Len(m) < index + 7 THEN Scalar(Len(m))
    ELSE Ok(index + 7,
            <<m[index + 1] * 256 + m[index + 2], m[index + 3], m[index + 4],
              m[index + 5], m[index + 6], m[index + 7]>>)

\* _PARSE_ACTIONS[kind](m, index); a kind without an entry is a KeyError.
_PARSE_ACTIONS(kind, m, index) ==
    CASE kind = "A" -> _ParseStringWithLength(m, index)
      [] kind = "F" -> _ParseStringWithLengthAndEncoding(m, index)
      [] kind = "B" -> _ParseByte(m, index)
      [] kind = "C" -> _ParseDate(m, index)
      [] kind = "G" -> _ParseGroups(m, index)
      [] kind = "N" -> _ParseName(m, index)
      [] kind = "L" -> _ParseListRest(m, index)
      [] kind = "R" -> _ParseRestLittleEndianInt(m, index)
      [] kind = "W" -> _ParseWord(m, index)
      [] kind = "V" -> _ParseValue(m, index)
      [] kind = "M" -> _ParseMeter(m, index)
      [] kind = "O" -> _ParseNonce(m, index)
      [] kind = "D" -> _ParseDataRest(m, index)
      [] kind = "T" -> _ParseBitVector(m, index)
      [] kind = "U" -> _ParseBitVectorRest(m, index)
      [] kind = "X" -> _ParseSensor(m, index)
      [] OTHER -> Raise("KeyError")

(***************************************************************************)
(* The command table z.SUBCMD_TO_PARSE_TABLE is not among the sources.  It *)
(* is modelled from the specification: a mapping from classId * 256 +      *)
(* cmdId to the ordered field descriptors, whose lookup yields a "no       *)
(* entry" value for an unknown key.  A descriptor "B{level}" is the pair   *)
(* kind = t[0], name = t[2:-1].  The entries carry every type tag of the   *)
(* codec at least once.                                                    *)
(***************************************************************************)
F(kind, name) == [kind |-> kind, name |-> name]

TableEntries ==
    {[cmd0 |-> 32,  cmd1 |-> 1,   fields |-> <<F("B", "level")>>],
     [cmd0 |-> 114, cmd1 |-> 5,   fields |-> <<F("W", "manufacturer"), F("W", "product")>>],
     [cmd0 |-> 139, cmd1 |-> 3,   fields |-> <<F("C", "date")>>],
     [cmd0 |-> 49,  cmd1 |-> 5,   fields |-> <<F("B", "type"), F("X", "value")>>],
     [cmd0 |-> 50,  cmd1 |-> 2,   fields |-> <<F("M", "value")>>],
     [cmd0 |-> 152, cmd1 |-> 128, fields |-> <<F("O", "nonce")>>],
     [cmd0 |-> 152, cmd1 |-> 6,   fields |-> <<F("K", "key")>>],
     [cmd0 |-> 112, cmd1 |-> 6,   fields |-> <<F("B", "parameter"), F("V", "value")>>],
     [cmd0 |-> 119, cmd1 |-> 3,   fields |-> <<F("N", "name")>>],
     [cmd0 |-> 89,  cmd1 |-> 2,   fields |-> <<F("B", "group"), F("A", "name")>>],
     [cmd0 |-> 99,  cmd1 |-> 3,   fields |-> <<F("F", "code")>>],
     [cmd0 |-> 99,  cmd1 |-> 4,   fields |-> <<F("F", "code"), F("B", "status")>>],
     [cmd0 |-> 135, cmd1 |-> 3,   fields |-> <<F("B", "mode"), F("R", "duration")>>],
     [cmd0 |-> 96,  cmd1 |-> 13,  fields |-> <<F("B", "endpoint"), F("L", "command")>>],
     [cmd0 |-> 152, cmd1 |-> 129, fields |-> <<F("D", "data")>>],
     [cmd0 |-> 156, cmd1 |-> 4,   fields |-> <<F("T", "bits")>>],
     [cmd0 |-> 39,  cmd1 |-> 3,   fields |-> <<F("U", "bits")>>],
     [cmd0 |-> 89,  cmd1 |-> 4,   fields |-> <<F("G", "groups")>>]}

TableKeys == {e.cmd0 * 256 + e.cmd1 : e \in TableEntries}

SUBCMD_TO_PARSE_TABLE ==
    [k \in TableKeys |->
        (CHOOSE e \in TableEntries : e.cmd0 * 256 + e.cmd1 = k).fields]

\* z.SUBCMD_TO_PARSE_TABLE[key]
TableLookup(key) ==
    IF key \in TableKeys
    THEN [tag |-> "table", fields |-> SUBCMD_TO_PARSE_TABLE[key]]
    ELSE [tag |-> "None"]

_GetParameterDescriptors(m) ==
    IF Len(m) < 2 THEN [tag |-> "None"]
    ELSE TableLookup(m[1] * 256 + m[2])

RECURSIVE ParseFields(_, _, _, _, _)
\* The loop of ParseCommand (line 309-317) from descriptor i on.
ParseFields(m, table, i, index, out) ==
    IF i > Len(table) THEN [tag |-> "dict", fields |-> out]
    ELSE
      LET kind == table[i].kind
          name == table[i].name
          r == _PARSE_ACTIONS(kind, m, index)
      IN  CASE r.tag = "raise" -> r
            [] r.tag = "scalar" -> Raise("TypeError")
            [] r.tag = "None" -> [tag |-> "None"]
            [] OTHER -> ParseFields(m, table, i + 1, r.index,
                                    (name :> r.value) @@ out)

ParseCommand_NoTableTest(m) ==
    LET table == _GetParameterDescriptors(m)
    IN  IF table.tag = "None" THEN Raise("TypeError")
        ELSE ParseFields(m, table.fields, 1, 2, <<>>)

\* An unknown command returns [] (line 305), a malformed one None (316).
ParseCommand(m) ==
    LET table == _GetParameterDescriptors(m)
    IN  IF table.tag = "None" THEN [tag |-> "empty_list"]
        ELSE ParseFields(m, table.fields, 1, 2, <<>>)

_MakeDate(date) ==
    <<date[1] \div 256, date[1] % 256, date[2], date[3], date[4], date[5],
      date[6]>>

_MakeSensor(args) ==
    LET m == args["mantissa"]
        c == Or(Or(Shl(args["exp"], 5), Shl(args["scale"], 3)), Len(m))
    IN  <<c>> \o m

_MakeMeter(args) ==
    LET c1 == Or(Or(Shl(And(args["unit"], 4), 7), Shl(args["rate"], 5)),
                 And(args["type"], 31))
        c2 == Or(Or(Shl(args["exp"], 5), Shl(And(args["unit"], 3), 3)),
                 Len(args["mantissa"]))
        delta == IF "dt" \in DOMAIN args
                 THEN <<Shr(args["dt"], 8), And(args["dt"], 255)>>
                 ELSE <<>>
        second == IF "mantissa2" \in DOMAIN args THEN args["mantissa2"]
                  ELSE <<>>
    IN  <<c1, c2>> \o args["mantissa"] \o delta \o second

Bytes(data) == [tag |-> "bytes", data |-> data]

\* One iteration of AssembleCommand's loop (line 367-423): the bytes the
\* field adds, or the exception.  A wrong-sized nonce is logged and added.
AssembleField(kind, v) ==
    CASE kind = "B" -> Bytes(<<v>>)
      [] kind = "W" -> Bytes(<<And(Shr(v, 8), 255), And(v, 255)>>)
      [] kind = "Y" -> Bytes(<<v>>)
      [] kind = "N" -> Bytes(<<1>>)
      [] kind = "K" -> IF Len(v) # 16 THEN Raise("AssertionError") ELSE Bytes(v)
      [] kind = "D" -> Bytes(v)
      [] kind = "S" -> Raise("AssertionError")
      [] kind = "L" -> Bytes(v)
      [] kind = "C" -> Bytes(_MakeDate(v))
      [] kind = "O" -> Bytes(v)
      [] kind = "V" ->
            Bytes(<<v["size"]>> \o
                  [k \in 1..v["size"] |->
                      And(Shr(v["value"], 8 * (v["size"] - k)), 255)])
      [] kind = "X" -> Bytes(_MakeSensor(v))
      [] kind = "M" -> Bytes(_MakeMeter(v))
      [] kind = "F" ->
            Bytes(<<Or(Shl(v["encoding"], 5), Len(v["text"]))>> \o v["text"])
      [] kind = "R" ->
            Bytes([k \in 1..v["size"] |-> And(Shr(v["value"], 8 * (k - 1)), 255)])
      [] OTHER -> Raise("AssertionError")

RECURSIVE AssembleFields(_, _, _, _)
AssembleFields(table, i, args, data) ==
    IF i > Len(table) THEN Bytes(data)
    ELSE IF table[i].name \notin DOMAIN args THEN Raise("KeyError")
    ELSE LET r == AssembleField(table[i].kind, args[table[i].name])
         IN  IF r.tag = "raise" THEN r
             ELSE AssembleFields(table, i + 1, args, data \o r.data)

AssembleCommand(cmd0, cmd1, args) ==
    LET table == TableLookup(cmd0 * 256 + cmd1)
    IN  IF table.tag = "None" THEN Raise("AssertionError")
        ELSE AssembleFields(table.fields, 1, args, <<cmd0, cmd1>>)

(***************************************************************************)
(* Codec harness: a caller assembles a command from a field record, the    *)
(* transport may cut the frame short, and the receiver parses it; or the   *)
(* receiver parses a frame that arrives from elsewhere.                    *)
(***************************************************************************)
ByteSamples == {0, 1, 200, 255}

ByteSeqs == UNION {[1..n -> ByteSamples] : n \in 0..MaxArgLen}

Key(cmd0, cmd1) == cmd0 * 256 + cmd1

SensorValues ==
    {[exp |-> e, scale |-> s, mantissa |-> mm,
      _value |-> Div(_GetSignedValue(mm), Pow(10, e))] :
        e \in {0, 1}, s \in {0, 3}, mm \in ByteSeqs \ {<<>>}}

MeterValues ==
    {[type |-> 1, unit |-> u, exp |-> e, rate |-> 1, mantissa |-> mm,
      _value |-> Div(_GetSignedValue(mm), Pow(10, e))] :
        u \in {0, 5}, e \in {0, 2}, mm \in ByteSeqs \ {<<>>}}

MeterValuesDt == {v @@ ("dt" :> 300) : v \in MeterValues}

SizedValues ==
    {[size |-> n, value |-> v] : n \in {1, 2, 4}, v \in {0, 200, 255}}
        \cup {[size |-> 2, value |-> 65535]}

TextSeqs == UNION {[1..n -> {65, 66}] : n \in 0..MaxArgLen}

NameValues ==
    {[encoding |-> e, text |-> t, _decoded |-> t] : e \in {0, 1}, t \in TextSeqs}

TextValues == [encoding : {0, 1}, text : TextSeqs]

RestInts ==
    {[size |-> n, value |-> v] : n \in 0..MaxArgLen, v \in {0, 1}}
        \cup {[size |-> n, value |-> Pow(256, n) - 1] : n \in 1..MaxArgLen}

\* The field records callers pass for the command with the given key: every
\* field of the table entry, each value within its descriptor's sizes.
ArgsFor(k) ==
    CASE k = Key(32, 1) -> [level : ByteSamples]
      [] k = Key(114, 5) -> [manufacturer : {0, 258, 65535}, product : {1, 65535}]
      [] k = Key(139, 3) ->
            [date : {<<2016, 12, 31, 23, 59, 58>>, <<255, 1, 1, 0, 0, 0>>}]
      [] k = Key(49, 5) -> [type : {1}, value : SensorValues]
      [] k = Key(50, 2) -> [value : MeterValues]
      [] k = Key(152, 128) -> [nonce : NonceValues]
      [] k = Key(152, 6) -> [key : {_DEFAULT_NETWORK_KEY}]
      [] k = Key(112, 6) -> [parameter : {1}, value : SizedValues]
      [] k = Key(119, 3) -> [name : NameValues]
      [] k = Key(89, 2) -> [group : {1}, name : ByteSeqs]
      [] k = Key(99, 3) -> [code : TextValues]
      [] k = Key(99, 4) -> [code : TextValues, status : {0}]
      [] k = Key(135, 3) -> [mode : {0}, duration : RestInts]
      [] k = Key(96, 13) -> [endpoint : {1}, command : ByteSeqs]
      [] k = Key(152, 129) -> [data : ByteSeqs]
      [] k = Key(156, 4) -> [bits : {{}, {0}, {0, 9}}]
      [] k = Key(39, 3) -> [bits : {{}, {0}, {0, 9}}]
      [] k = Key(89, 4) -> [groups : {<<>>, <<<<1, 258, 3>>>>}]

\* Frames that reach the parser from the transport: headers without a table
\* entry, headers with one, and frames too short to carry a header.
RawFrames ==
    {h \o b : h \in {<<32, 2>>, <<0, 0>>, <<255, 255>>, <<32, 1>>, <<89, 2>>,
                     <<89, 4>>, <<156, 4>>, <<39, 3>>},
              b \in ByteSeqs}
        \cup {<<>>, <<32>>}

CodecIdle ==
    /\ co_pc = "idle"
    /\ co_in = [cmd0 |-> 0, cmd1 |-> 0, args |-> <<>>]
    /\ co_raw = <<>>
    /\ co_out = [tag |-> "none"]

CodecInit ==
    /\ co_pc = "start"
    /\ co_in = [cmd0 |-> 0, cmd1 |-> 0, args |-> <<>>]
    /\ co_raw = <<>>
    /\ co_out = [tag |-> "none"]

CoAssemble(cmd0, cmd1, args) ==
    LET r == AssembleCommand(cmd0, cmd1, args)
    IN  /\ co_pc = "start"
        /\ co_in' = [cmd0 |-> cmd0, cmd1 |-> cmd1, args |-> args]
        /\ co_raw' = IF r.tag = "bytes" THEN r.data ELSE <<>>
        /\ co_pc' = IF r.tag = "bytes" THEN "assembled" ELSE "raised"
        /\ co_out' = IF r.tag = "bytes" THEN [tag |-> "none"] ELSE r
        /\ UNCHANGED <<sessionVars, cryptVars>>

CoTruncate(n) ==
    /\ co_pc = "assembled"
    /\ n \in 2..(Len(co_raw) - 1)
    /\ co_raw' = SubSeq(co_raw, 1, n)
    /\ co_pc' = "truncated"
    /\ UNCHANGED <<co_in, co_out, sessionVars, cryptVars>>

CoReceive(frame) ==
    /\ co_pc = "start"
    /\ co_raw' = frame
    /\ co_pc' = "received"
    /\ UNCHANGED <<co_in, co_out, sessionVars, cryptVars>>

CoParse ==
    /\ co_pc \in {"assembled", "truncated", "received"}
    /\ co_out' = [tag |-> "parse", from |-> co_pc, res |-> ParseCommand(co_raw)]
    /\ co_pc' = "parsed"
    /\ UNCHANGED <<co_in, co_raw, sessionVars, cryptVars>>

CodecNext ==
    \/ \E k \in TableKeys : \E args \in ArgsFor(k) :
          CoAssemble(k \div 256, k % 256, args)
    \/ \E args \in MeterValuesDt : CoAssemble(50, 2, [value |-> args])
    \/ \E n \in 2..(2 + 16) : CoTruncate(n)
    \/ \E frame \in RawFrames : CoReceive(frame)
    \/ CoParse

(***************************************************************************)
(* Signed-value harness: a mantissa arrives, and either _GetSignedValue is *)
(* applied to it directly or _ParseSensor reads it from a sensor field     *)
(* with precision 0 (c = size, then the mantissa bytes).                   *)
(***************************************************************************)
MantissaBytes == {0, 56, 127, 128, 200, 255}

Mantissas == UNION {[1..n -> MantissaBytes] : n \in 1..MaxMantissaLen}

SignedInit ==
    /\ co_pc = "mantissa"
    /\ co_in = [cmd0 |-> 0, cmd1 |-> 0, args |-> <<>>]
    /\ co_raw \in Mantissas
    /\ co_out = [tag |-> "none"]

GetSigned ==
    /\ co_pc = "mantissa"
    /\ co_out' = [tag |-> "signed", value |-> _GetSignedValue(co_raw)]
    /\ co_pc' = "signed"
    /\ UNCHANGED <<co_in, co_raw, sessionVars, cryptVars>>

ReadSensor ==
    /\ co_pc = "mantissa"
    /\ co_out' = [tag |-> "sensor",
                  res |-> _ParseSensor(<<Len(co_raw)>> \o co_raw, 0)]
    /\ co_pc' = "sensor"
    /\ UNCHANGED <<co_in, co_raw, sessionVars, cryptVars>>

SignedNext == GetSigned \/ ReadSensor

(***************************************************************************)
(* Fixed-size field harness: a caller assembles the key-set command        *)
(* (Security, NetworkKeySet: 'K') or the nonce report (Security, 128: 'O') *)
(* from a value of any length up to MaxFieldLen.                           *)
(***************************************************************************)
FieldValues ==
    {Repeat(b, n) : b \in {0, 1, 200, 255}, n \in 0..MaxFieldLen}

AssembleKey(v) == CoAssemble(152, 6, [key |-> v])

AssembleNonce(v) == CoAssemble(152, 128, [nonce |-> v])

EncodeNext ==
    \/ \E v \in FieldValues : AssembleKey(v)
    \/ \E v \in FieldValues : AssembleNonce(v)

(***************************************************************************)
(* Specifications.                                                         *)
(***************************************************************************)
Init == SessionInit /\ CryptIdle /\ CodecIdle
Next == SessionNext
Spec == Init /\ [][Next]_vars

CryptSpecInit == CryptInit /\ SessionInit /\ CodecIdle
CryptSpec == CryptSpecInit /\ [][CryptNext]_vars

CodecSpecInit == CodecInit /\ SessionInit /\ CryptIdle
CodecSpec == CodecSpecInit /\ [][CodecNext]_vars

SignedSpecInit == SignedInit /\ SessionInit /\ CryptIdle
SignedSpec == SignedSpecInit /\ [][SignedNext]_vars

EncodeSpec == CodecSpecInit /\ [][EncodeNext]_vars

(***************************************************************************)
(* Claims about the session (checked under Spec).                          *)
(***************************************************************************)
IsKeySet(cmd) == cmd[1] = Security /\ cmd[2] = Security_NetworkKeySet

\* The frame a raw command [class, subcommand, arg] stands for: the two
\* header bytes followed by the argument bytes.
AssembledBytes(cmd) == <<cmd[1], cmd[2]>> \o cmd[3]

CalledPRN == last.op = "ProcessReceivedNonce"

\* C1: with a non-empty queue, ProcessReceivedNonce(nonce) removes exactly
\* the head of the queue (the rest keeps its order) and returns the envelope
\* (Security, MessageEncap, Wrap(assembled head, nonce)) under the current
\* key; it never returns nothing.
C1_ReleasesHead ==
    (CalledPRN /\ Len(last.pre_queue) > 0) =>
        /\ last.outcome.kind = "envelope"
        /\ queue = Tail(last.pre_queue)
        /\ last.outcome.msg =
             <<Security, Security_MessageEncap,
               Wrap(Crypter(last.pre_crypter),
                    AssembledBytes(Head(last.pre_queue)),
                    last.nonce.value, GetRandomList(8), Security_MessageEncap,
                    SessionNodes.controller, SessionNodes.node)>>

\* C2: with an empty queue, ProcessReceivedNonce(newNonce) returns nothing,
\* raises no error, releases no envelope and leaves the queue empty.
C2_EmptyQueueYieldsNothing ==
    (CalledPRN /\ Len(last.pre_queue) = 0) =>
        /\ last.outcome.kind = "None"
        /\ queue = <<>>
        /\ released = last.pre_released

\* C3: when ProcessReceivedNonce pops a NetworkKeySet(newKey) command while
\* the session holds oldKey, the returned bytes unwrap under oldKey to the
\* assembled command, and the session then holds newKey (so that the next
\* wrap uses it).
C3_KeySwitchAfterWrap ==
    (CalledPRN /\ Len(last.pre_queue) > 0 /\ IsKeySet(Head(last.pre_queue))) =>
        /\ last.outcome.kind = "envelope"
        /\ Unwrap(Crypter(last.pre_crypter), last.outcome.msg[3],
                  last.nonce.value, Security_MessageEncap,
                  SessionNodes.controller, SessionNodes.node)
             = [kind |-> "payload",
                data |-> AssembledBytes(Head(last.pre_queue))]
        /\ crypter = Head(last.pre_queue)[3]

Unwrapped == cr_pc = "unwrapped"

MacPositions == {Len(cr_wrapped) - k : k \in 0..7}

\* C6: Unwrap(Wrap(payload, nonce, random, sub, src, dst), nonce, sub, src,
\* dst) returns exactly payload: the sequence byte is stripped and neither
\* the nonce check nor the MAC check fails.
C6_CryptRoundTrip ==
    (Unwrapped /\ cr_tamper.pos = 0 /\ cr_result.nonce = cr_in.nonce) =>
        cr_result.out = [kind |-> "payload", data |-> cr_in.payload]

C6_Witness ==
    /\ Unwrapped
    /\ cr_tamper.pos = 0
    /\ cr_result.nonce = cr_in.nonce
    /\ Len(cr_in.payload) = 33
    /\ cr_result.out.kind = "payload"
    /\ cr_result.out.data = cr_in.payload

\* C7: replacing any one of the trailing 8 MAC bytes of a Wrap output by a
\* different value makes Unwrap (same nonce and header) fail with the MAC
\* mismatch; Unwrap returns a payload only when all 8 trailing bytes equal
\* the MAC recomputed over the received ciphertext, IV and header.
C7_MacTamperDetected ==
    Unwrapped =>
        /\ (cr_tamper.pos \in MacPositions /\ cr_result.nonce = cr_in.nonce) =>
              cr_result.out = [kind |-> "None", log |-> "mac mismatch"]
        /\ cr_result.out.kind = "payload" =>
              SubSeq(cr_wrapped, Len(cr_wrapped) - 7, Len(cr_wrapped))
                = ComputeMAC(Crypter(cr_in.key)._auth_key,
                             SubSeq(cr_wrapped, 9, Len(cr_wrapped) - 9),
                             SubSeq(cr_wrapped, 1, 8) \o cr_result.nonce,
                             cr_in.hdr.sub, cr_in.hdr.src, cr_in.hdr.dst)

C7_Witness ==
    /\ Unwrapped
    /\ cr_tamper.pos = Len(cr_wrapped)
    /\ cr_result.nonce = cr_in.nonce
    /\ cr_result.out.kind = "None"
    /\ cr_result.out.log = "mac mismatch"

(***************************************************************************)
(* Claims about the codec (checked under CodecSpec).                       *)
(***************************************************************************)
Parsed == co_pc = "parsed"

\* The frame's (classId, cmdId) header has a table entry.
HeaderKnown == Len(co_raw) >= 2 /\ (co_raw[1] * 256 + co_raw[2]) \in TableKeys

\* Type tags whose decoder needs a fixed or length-prefixed number of bytes:
\* a proper prefix of an exact encoding of such fields leaves one of them
\* short.
SizedKinds == {"B", "W", "C", "O", "X", "V", "F"}

AllSized ==
    LET t == SUBCMD_TO_PARSE_TABLE[Key(co_in.cmd0, co_in.cmd1)]
    IN  \A i \in 1..Len(t) : t[i].kind \in SizedKinds

\* C8: for every table entry and every field record within the descriptors'
\* sizes, Decode(Encode(classId, cmdId, args)) equals args.
C8_CodecRoundTrip ==
    /\ co_pc # "raised"
    /\ (Parsed /\ co_out.from = "assembled") =>
          /\ co_out.res.tag = "dict"
          /\ co_out.res.fields = co_in.args

\* C9: a frame with a known header whose field stream is too short for one
\* of its fields makes Decode return the failure marker: no exception and
\* no record.
C9_TruncatedInputFails ==
    (Parsed /\ co_out.from = "truncated" /\ AllSized) =>
        co_out.res.tag = "None"

RECURSIVE BigEndian(_, _)
BigEndian(data, n) ==
    IF n = 0 THEN 0 ELSE BigEndian(data, n - 1) * 256 + data[n]

TwosComplement(data) ==
    LET u == BigEndian(data, Len(data))
    IN  IF data[1] >= 128 THEN u - Pow(2, 8 * Len(data)) ELSE u

\* C11: for every non-empty byte sequence the signed-value decoder returns
\* the two's-complement value of the bytes read most-significant first, both
\* when called directly and when a sensor field's mantissa is read;
\* [255, 56] gives -200 and [0, 200] gives 200.
C11_SignedMantissa ==
    /\ co_pc = "signed" => co_out.value = TwosComplement(co_raw)
    /\ co_pc = "sensor" =>
          /\ co_out.res.tag = "ok"
          /\ co_out.res.value._value = Div(TwosComplement(co_raw), 1)

(***************************************************************************)
(* Claims about fixed-size fields (checked under EncodeSpec).              *)
(***************************************************************************)
Encoded == co_pc \in {"assembled", "raised"}

WrongSizedKey ==
    /\ co_in.cmd0 = 152 /\ co_in.cmd1 = 6
    /\ Len(co_in.args["key"]) # 16

WrongSizedNonce ==
    /\ co_in.cmd0 = 152 /\ co_in.cmd1 = 128
    /\ Len(co_in.args["nonce"]) # 8

\* C12: Encode of a command with a 16-byte key field whose value is not 16
\* bytes long, or with an 8-byte nonce field whose value is not 8 bytes
\* long, fails and returns no byte sequence.
C12_FixedSizeValidated ==
    (Encoded /\ (WrongSizedKey \/ WrongSizedNonce)) =>
        /\ co_pc = "raised"
        /\ co_raw = <<>>

====
